---- MODULE Spec2Model ----
(***************************************************************************)
(* Model of the coin game server (server/game.js and its utility module).  *)
(*                                                                         *)
(* The game state lives in a Redis store that two connections talk to: the *)
(* game module's client and the utility module's client (used by           *)
(* scanValues).  A connection sends its commands in the order they are     *)
(* issued and the store answers them in that order, so each connection is  *)
(* a FIFO of commands in flight.  One step of the model serves the head of *)
(* a FIFO: the store executes the command and the reply callback runs,     *)
(* which may issue further commands (appended to the FIFO) and may settle  *)
(* the promise of the call it belongs to.                                  *)
(*                                                                         *)
(* Strings that the code formats and parses (positions "x,y", coin keys    *)
(* "row,col", coin values, player keys "player:<name>") are sequences of   *)
(* one-character strings, so that formatting and parsing are computed.     *)
(***************************************************************************)
EXTENDS Integers, Sequences, FiniteSets, TLC

\* ------------------------------------------------------------------------
\* Program constants
\* ------------------------------------------------------------------------
WIDTH == 64
HEIGHT == 64
MAX_PLAYER_NAME_LENGTH == 32
NUM_COINS == 100
\* seconds given to SETEX for a player key
TTL == 300

\* ------------------------------------------------------------------------
\* Bounds of the model
\* ------------------------------------------------------------------------
\* number of calls (addPlayer / move / state) made in one behaviour
MaxCalls == 2
\* number of calls in flight at the same time
MaxInFlight == 2
\* seconds that pass in one Elapse step
ElapseStep == 150
\* number of SCAN commands one scanValues call may issue before the model
\* stops following it (the code's loop has no bound of its own)
MaxScans == 2

Calls == 1..MaxInFlight

\* ------------------------------------------------------------------------
\* Strings as sequences of characters
\* ------------------------------------------------------------------------
Digit == <<"0", "1", "2", "3", "4", "5", "6", "7", "8", "9">>

\* decimal representation of a non-negative integer (Number.prototype.toString)
RECURSIVE Fmt(_)
Fmt(n) == IF n < 10 THEN <<Digit[n + 1]>>
          ELSE Fmt(n \div 10) \o <<Digit[(n % 10) + 1]>>

DigitValue(ch) == CHOOSE d \in 0..9 : Digit[d + 1] = ch

\* unary plus on a string of decimal digits (the empty string gives 0)
RECURSIVE Number(_)
Number(s) == IF s = <<>> THEN 0
             ELSE 10 * Number(SubSeq(s, 1, Len(s) - 1)) + DigitValue(s[Len(s)])

\* String.prototype.split(','): the pieces between commas
RECURSIVE Split(_)
Split(s) ==
    IF \A i \in 1..Len(s) : s[i] # ","
    THEN <<s>>
    ELSE LET i == CHOOSE k \in 1..Len(s) :
                      s[k] = "," /\ \A m \in 1..(k - 1) : s[m] # ","
         IN  <<SubSeq(s, 1, i - 1)>> \o Split(SubSeq(s, i + 1, Len(s)))

\* `${a},${b}` and [a, b].toString()
PairString(a, b) == Fmt(a) \o <<",">> \o Fmt(b)

Prefix == <<"p", "l", "a", "y", "e", "r", ":">>
\* `player:${name}`
PlayerKey(name) == Prefix \o name
\* the glob pattern 'player:*'
MatchesPattern(key) == Len(key) >= Len(Prefix) /\ SubSeq(key, 1, Len(Prefix)) = Prefix
\* playerKey.substr(7)
Substr7(key) == SubSeq(key, 8, Len(key))

\* ------------------------------------------------------------------------
\* gameutil: clamp, randomPoint, permutation
\* ------------------------------------------------------------------------
Max2(a, b) == IF a >= b THEN a ELSE b
Min2(a, b) == IF a <= b THEN a ELSE b

clampOff(value, low, high) == Max2(low, Min2(high + 1, value))
clamp(value, low, high) == Max2(low, Min2(high, value))

\* the points randomPoint is followed for (it can return any cell)
StartPoints == {<<0, 1>>, <<63, 63>>}
randomPoint(maxX, maxY) == {p \in StartPoints : p[1] < maxX /\ p[2] < maxY}

SetMax(S) == CHOOSE m \in S : \A k \in S : k <= m

\* The Fisher-Yates loop over array = [0, 1, ..., n-1], i from n-1 down to 1.
\* J gives the random index j drawn at step i for the steps where j # i;
\* at every other step j = i and the swap changes nothing.
RECURSIVE Shuffle(_, _, _)
Shuffle(array, todo, J) ==
    IF todo = {} THEN array
    ELSE LET i == SetMax(todo)
             j == J[i]
         IN  Shuffle([array EXCEPT ![i] = array[j], ![j] = array[i]],
                     todo \ {i}, J)

permutation(n, J) == Shuffle([i \in 0..(n - 1) |-> i], DOMAIN J, J)

\* the random draws the model follows
NoSwap == [i \in {} |-> 0]
SomeSwaps == [i \in {80, 99, 4095} |-> CASE i = 80 -> 1
                                          [] i = 99 -> 65
                                          [] i = 4095 -> 2]
Draws == {NoSwap, SomeSwaps}

\* ------------------------------------------------------------------------
\* Store commands (the effect of one Redis command on the value it touches)
\* ------------------------------------------------------------------------
Put(f, k, v) == [x \in (DOMAIN f) \cup {k} |-> IF x = k THEN v ELSE f[x]]
Del(f, k) == [x \in (DOMAIN f) \ {k} |-> f[x]]
Empty == [x \in {} |-> 0]

\* HSET coins field value
Hset(h, field, value) == Put(h, field, value)
\* HDEL coins field
Hdel(h, field) == Del(h, field)
\* HGET coins field: the value or null
Null == <<"null">>
Hget(h, field) == IF field \in DOMAIN h THEN h[field] ELSE Null
\* HGETALL as node_redis hands it to the callback: an object of the fields,
\* or null when the hash has no field
Hgetall(h) == [isNull |-> DOMAIN h = {}, fields |-> h]
\* SETEX key seconds value
Setex(s, key, value) == Put(s, key, [val |-> value, ttl |-> TTL])
\* GET key
Get(s, key) == IF key \in DOMAIN s THEN s[key].val ELSE Null
\* ZADD scores score member: sets the member's score
Zadd(z, score, member) == Put(z, member, score)
\* ZINCRBY scores increment member: creates the member at 0 when absent
ZincrbyNone(z, incr, member) == z
Zincrby(z, incr, member) ==
    Put(z, member, (IF member \in DOMAIN z THEN z[member] ELSE 0) + Number(incr))

\* ------------------------------------------------------------------------
\* placeCoins
\* ------------------------------------------------------------------------
coinValue(i) == IF i < 50 THEN 1 ELSE IF i < 75 THEN 2 ELSE IF i < 95 THEN 5 ELSE 10
coinIndex(position) == PairString(position \div WIDTH, position % WIDTH)

\* placeCoins() on the hash h with the random draws J: the hash after the
\* NUM_COINS HSET commands, issued for i = 0, 1, ... in this order (a field
\* written twice keeps the value written last)
placeCoins(h, J) ==
    LET array == permutation(WIDTH * HEIGHT, J)
        sliced == [i \in 0..(NUM_COINS - 1) |-> array[i]]
        index == [i \in 0..(NUM_COINS - 1) |-> coinIndex(sliced[i])]
        written == {index[i] : i \in 0..(NUM_COINS - 1)}
    IN  [f \in (DOMAIN h) \cup written |->
            IF f \in written
            THEN Fmt(coinValue(SetMax({i \in 0..(NUM_COINS - 1) : index[i] = f})))
            ELSE h[f]]

\* ------------------------------------------------------------------------
\* State
\* ------------------------------------------------------------------------
VARIABLES
    strings,    \* the string keys of the store: key -> [val, ttl] (player:<name>)
    scores,     \* the sorted set 'scores': member -> score
    coins,      \* the hash 'coins': "row,col" -> value
    usednames,  \* the set 'usednames'
    queue,      \* commands in flight on the game module's connection
    scanq,      \* commands in flight on the utility module's connection
    calls,      \* the calls in flight and, until the next event, those just ended
    made,       \* the number of calls made so far
    snap        \* history: the store when the first of these calls was made

vars == <<strings, scores, coins, usednames, queue, scanq, calls, made, snap>>
store == <<strings, scores, coins, usednames>>

NameA == <<"a">>
NameB == <<"b">>
NameOld == <<"o", "l", "d">>
EmptyName == <<>>
LongName == [i \in 1..(MAX_PLAYER_NAME_LENGTH + 1) |-> "x"]
\* the names addPlayer is called with, and the names move is called with
Names == {NameA, NameB, EmptyName, LongName}
MoveNames == {NameA, NameB}
\* the direction arguments calls are made with ("X" is not a direction)
Directions == {"U", "R", "D", "L", "X"}

\* A call: its arguments, its position in the code (pc), the value its
\* promise resolved with (result, for addPlayer), the locals of move
\* (newPosition, value), the results object of state (positions, scores,
\* coins, each with a flag telling that its task is done), the locals of
\* scanValues (keys, values, cursor, whether its promise is settled, the number
\* of SCAN commands issued) and, as history, whether the store has answered
\* one of its commands with an error (failed).
IdleCall == [op |-> "none", name |-> <<>>, dir |-> "", pc |-> "idle",
             result |-> FALSE, newPosition |-> <<0, 0>>, value |-> Null,
             positions |-> <<>>, positionsDone |-> FALSE,
             scoresRes |-> <<>>, scoresDone |-> FALSE,
             coinsRes |-> Hgetall(Empty), coinsDone |-> FALSE,
             keys |-> <<>>, values |-> <<>>, cursor |-> "0", scans |-> 0,
             scanSettled |-> FALSE, failed |-> FALSE]

\* a command in flight: its name, its arguments, whether it has a callback,
\* and the call that issued it
Cmd(cmd, a, b, cb, by) == [cmd |-> cmd, a |-> a, b |-> b, cb |-> cb, by |-> by]

\* the sum of the values of the given fields of a hash, value by value
RECURSIVE SumByValue(_, _, _)
SumByValue(h, fields, vs) ==
    IF vs = {} THEN 0
    ELSE LET v == CHOOSE x \in vs : TRUE
         IN  v * Cardinality({f \in fields : Number(h[f]) = v})
                 + SumByValue(h, fields, vs \ {v})

SumValues(h, fields) == SumByValue(h, fields, {Number(h[f]) : f \in fields})

Restrict(f, S) == [x \in (DOMAIN f) \cap S |-> f[x]]

\* the coin an earlier player may have left on the board
LastCell == PairString(1, 1)

Snapshot == [strings |-> strings, scores |-> scores, coins |-> coins,
             usednames |-> usednames]

\* The store when the calls of a behaviour begin.  The module has run
\* placeCoins() on an empty store.  Either nothing else has happened, or an
\* earlier player "old" has collected every coin but one and its key has
\* expired; and either nobody is registered or "a" and "b" have just
\* registered, at (0,1) and (1,0).
Init ==
    \E J \in Draws, played \in BOOLEAN, registered \in BOOLEAN :
        LET placed == placeCoins(Empty, J)
            left == IF played THEN {LastCell} ELSE DOMAIN placed
            old == IF played
                   THEN Zincrby(Zadd(Empty, 0, NameOld),
                                Fmt(SumValues(placed, (DOMAIN placed) \ left)), NameOld)
                   ELSE Empty
            olds == IF played THEN {NameOld} ELSE {}
        IN  /\ coins = Restrict(placed, left)
            /\ strings = IF registered
                         THEN Setex(Setex(Empty, PlayerKey(NameA), PairString(0, 1)),
                                    PlayerKey(NameB), PairString(1, 0))
                         ELSE Empty
            /\ scores = IF registered THEN Zadd(Zadd(old, 0, NameA), 0, NameB) ELSE old
            /\ usednames = IF registered THEN olds \cup {NameA, NameB} ELSE olds
            /\ queue = <<>>
            /\ scanq = <<>>
            /\ calls = [c \in Calls |-> IdleCall]
            /\ made = 0
            /\ snap = Snapshot

\* ------------------------------------------------------------------------
\* Calls in flight
\* ------------------------------------------------------------------------
Waiting == {"sismember", "get", "hget", "hgetall", "state"}

HasCommand(c) == \/ \E i \in 1..Len(queue) : queue[i].by = c
                 \/ \E i \in 1..Len(scanq) : scanq[i].by = c
InFlight(c) == calls[c].pc \in Waiting \/ HasCommand(c)

\* nothing is in flight: no promise is waiting for a reply and no command
\* is on its way
Quiet == queue = <<>> /\ scanq = <<>> /\ \A c \in Calls : calls[c].pc \notin Waiting

\* the slot of the next call: the first one when nothing is in flight (the
\* calls made before are then forgotten), the first free one otherwise
CanStart(c) ==
    /\ made < MaxCalls
    /\ IF Quiet THEN c = 1
       ELSE calls[c].pc = "idle" /\ \A d \in Calls : d < c => calls[d].pc # "idle"

Started(c, r) ==
    [d \in Calls |-> IF d = c THEN r ELSE IF Quiet THEN IdleCall ELSE calls[d]]

\* history: the store as it was when the first of the calls was made
SnapAtStart == snap' = IF Quiet THEN Snapshot ELSE snap

\* ------------------------------------------------------------------------
\* Time: Redis deletes a key when its time to live runs out
\* ------------------------------------------------------------------------
Aged(s) == [k \in {x \in DOMAIN s : s[x].ttl > ElapseStep} |->
               [s[k] EXCEPT !.ttl = s[k].ttl - ElapseStep]]

\* history: a snapshot keeps the keys that have expired since, with ttl 0
AgedSnap(s) == [k \in DOMAIN s |->
                   [s[k] EXCEPT !.ttl = IF s[k].ttl > ElapseStep
                                        THEN s[k].ttl - ElapseStep ELSE 0]]
Live(s) == [k \in {x \in DOMAIN s : s[x].ttl > 0} |-> s[k]]

\* ElapseStep seconds pass.  When nothing is in flight the calls that have
\* ended are forgotten.
Elapse ==
    /\ DOMAIN strings # {}
    /\ strings' = Aged(strings)
    /\ calls' = IF Quiet THEN [c \in Calls |-> IdleCall] ELSE calls
    /\ UNCHANGED <<scores, coins, usednames, queue, scanq, made>>
    /\ snap' = IF Quiet THEN Snapshot' ELSE [snap EXCEPT !.strings = AgedSnap(@)]

\* ------------------------------------------------------------------------
\* addPlayer(name)
\* ------------------------------------------------------------------------
AddPlayer(c, name) ==
    /\ CanStart(c)
    /\ calls' = Started(c, [IdleCall EXCEPT !.op = "addPlayer", !.name = name,
                                            !.pc = "sismember"])
    /\ queue' = Append(queue, Cmd("sismember", name, <<>>, TRUE, c))
    /\ made' = made + 1
    /\ UNCHANGED <<store, scanq>>
    /\ SnapAtStart

\* SISMEMBER usednames name
Sismember(set, member) == IF member \in set THEN 1 ELSE 0

\* the callback of SISMEMBER: resolve(false) does not return, so the three
\* commands are issued for every name; the second resolve has no effect
rejectedNameUsed(name, isMember) == isMember = 1
rejectedName(name, isMember) ==
    Len(name) = 0 \/ Len(name) > MAX_PLAYER_NAME_LENGTH \/ isMember = 1

SismemberReply(c) ==
    /\ queue # <<>>
    /\ Head(queue).cmd = "sismember" /\ Head(queue).by = c
    /\ LET name == calls[c].name
           isMember == Sismember(usednames, Head(queue).a)
       IN  \E p \in randomPoint(WIDTH, HEIGHT) :
             /\ queue' = Tail(queue) \o
                    << Cmd("sadd", name, <<>>, FALSE, c),
                       Cmd("setex", PlayerKey(name), PairString(p[1], p[2]), FALSE, c),
                       Cmd("zadd", name, 0, FALSE, c) >>
             /\ calls' = [calls EXCEPT ![c].pc = "resolved",
                                       ![c].result = ~rejectedName(name, isMember)]
    /\ UNCHANGED <<store, scanq, made>>
    /\ UNCHANGED snap

\* ------------------------------------------------------------------------
\* Commands without a callback
\* ------------------------------------------------------------------------
SaddCmd ==
    /\ queue # <<>> /\ Head(queue).cmd = "sadd"
    /\ usednames' = usednames \cup {Head(queue).a}
    /\ queue' = Tail(queue)
    /\ UNCHANGED <<strings, scores, coins, scanq, calls, made>>
    /\ UNCHANGED snap

SetexCmd ==
    /\ queue # <<>> /\ Head(queue).cmd = "setex"
    /\ strings' = Setex(strings, Head(queue).a, Head(queue).b)
    /\ queue' = Tail(queue)
    /\ UNCHANGED <<scores, coins, usednames, scanq, calls, made>>
    /\ UNCHANGED snap

ZaddCmd ==
    /\ queue # <<>> /\ Head(queue).cmd = "zadd"
    /\ scores' = Zadd(scores, Head(queue).b, Head(queue).a)
    /\ queue' = Tail(queue)
    /\ UNCHANGED <<strings, coins, usednames, scanq, calls, made>>
    /\ UNCHANGED snap

ZincrbyCmd ==
    /\ queue # <<>> /\ Head(queue).cmd = "zincrby"
    /\ scores' = Zincrby(scores, Head(queue).b, Head(queue).a)
    /\ queue' = Tail(queue)
    /\ UNCHANGED <<strings, coins, usednames, scanq, calls, made>>
    /\ UNCHANGED snap

\* the commands on the hash 'coins': HDEL, and the NUM_COINS HSET commands
\* of one placeCoins() call, which are issued in one go and so are served
\* with nothing between them
CoinsCmd ==
    /\ queue # <<>> /\ Head(queue).cmd \in {"hdel", "placeCoins"}
    /\ coins' = IF Head(queue).cmd = "hdel"
                THEN Hdel(coins, Head(queue).a)
                ELSE placeCoins(coins, Head(queue).a)
    /\ queue' = Tail(queue)
    /\ UNCHANGED <<strings, scores, usednames, scanq, calls, made>>
    /\ UNCHANGED snap

\* ------------------------------------------------------------------------
\* move(direction, name)
\* ------------------------------------------------------------------------
Recognized == {"U", "R", "D", "L"}
delta(direction) == CASE direction = "U" -> <<0, -1>>
                      [] direction = "R" -> <<1, 0>>
                      [] direction = "D" -> <<0, 1>>
                      [] direction = "L" -> <<-1, 0>>

\* with an unrecognized direction the executor does nothing: no command is
\* issued and the promise stays pending ("noop")
Move(c, direction, name) ==
    /\ CanStart(c)
    /\ calls' = Started(c, [IdleCall EXCEPT !.op = "move", !.name = name,
                               !.dir = direction,
                               !.pc = IF direction \in Recognized THEN "get" ELSE "noop"])
    /\ queue' = IF direction \in Recognized
                THEN Append(queue, Cmd("get", PlayerKey(name), <<>>, TRUE, c))
                ELSE queue
    /\ made' = made + 1
    /\ UNCHANGED <<store, scanq>>
    /\ SnapAtStart

\* the task newPosition, from the reply of GET
newPositionWide(playerPosition, d) ==
    LET xy == Split(playerPosition)
    IN  << clamp(Number(xy[1]) + d[1], 0, WIDTH),
           clamp(Number(xy[2]) + d[2], 0, HEIGHT) >>
newPosition(playerPosition, d) ==
    LET xy == Split(playerPosition)
    IN  << clamp(Number(xy[1]) + d[1], 0, WIDTH - 1),
           clamp(Number(xy[2]) + d[2], 0, HEIGHT - 1) >>

\* the callback of GET: playerPosition.split throws on null; the exception
\* leaves the callback, done is never called and the promise is never
\* settled (without a handler for uncaught exceptions the process ends
\* there: the behaviours that stop at this step).  Otherwise the task value
\* starts and issues HGET.
GetReply(c) ==
    /\ queue # <<>>
    /\ Head(queue).cmd = "get" /\ Head(queue).by = c
    /\ LET playerPosition == Get(strings, Head(queue).a)
       IN  IF playerPosition = Null
           THEN /\ calls' = [calls EXCEPT ![c].pc = "thrown_split"]
                /\ queue' = Tail(queue)
           ELSE LET np == newPosition(playerPosition, delta(calls[c].dir))
                IN  /\ calls' = [calls EXCEPT ![c].pc = "hget", ![c].newPosition = np]
                    /\ queue' = Append(Tail(queue),
                                   Cmd("hget", PairString(np[1], np[2]), <<>>, TRUE, c))
    /\ UNCHANGED <<store, scanq, made>>
    /\ UNCHANGED snap

\* if (value): a string is truthy unless it is empty
truthy(value) == value # Null /\ value # <<>>

\* the callback of HGET and the final callback of autoInject, which runs
\* when the task value is done
HgetReply(c) ==
    /\ queue # <<>>
    /\ Head(queue).cmd = "hget" /\ Head(queue).by = c
    /\ LET cell == Head(queue).a
           value == Hget(coins, cell)
           playerKey == PlayerKey(calls[c].name)
           claim == IF truthy(value)
                    THEN << Cmd("zincrby", calls[c].name, value, FALSE, c),
                            Cmd("hdel", cell, <<>>, FALSE, c) >>
                    ELSE <<>>
       IN  /\ queue' = Tail(queue) \o claim \o
                  << Cmd("setex", playerKey, cell, FALSE, c),
                     Cmd("hgetall", <<>>, <<>>, TRUE, c) >>
           /\ calls' = [calls EXCEPT ![c].pc = "hgetall", ![c].value = value]
    /\ UNCHANGED <<store, scanq, made>>
    /\ UNCHANGED snap

\* coinList.length === 0: coinList is an object whose properties are the coin
\* fields "row,col"; it has no property length, and undefined is not 0
lengthIsZero(fields) == FALSE

\* the callback of HGETALL in move: reading .length of null throws; of an
\* object it gives undefined, which is not 0.  resolve() has no effect on a
\* promise that is rejected already.
HgetallReplyMove(c) ==
    /\ queue # <<>>
    /\ Head(queue).cmd = "hgetall" /\ Head(queue).by = c
    /\ calls[c].op = "move"
    /\ LET coinList == Hgetall(coins)
       IN  IF coinList.isNull
           THEN /\ calls' = [calls EXCEPT ![c].pc = IF @ = "rejected" THEN @
                                                     ELSE "thrown_length"]
                /\ queue' = Tail(queue)
           ELSE /\ calls' = [calls EXCEPT ![c].pc = IF @ = "rejected" THEN @
                                                     ELSE "resolved"]
                /\ \E J \in Draws :
                     queue' = IF lengthIsZero(coinList.fields)
                              THEN Append(Tail(queue), Cmd("placeCoins", J, <<>>, FALSE, c))
                              ELSE Tail(queue)
    /\ UNCHANGED <<store, scanq, made>>
    /\ UNCHANGED snap

\* ------------------------------------------------------------------------
\* state()
\* ------------------------------------------------------------------------
\* async.parallel starts the three tasks in order: scanValues issues SCAN on
\* the utility connection, then ZREVRANGE and HGETALL go out on the game
\* connection
State(c) ==
    /\ CanStart(c)
    /\ calls' = Started(c, [IdleCall EXCEPT !.op = "state", !.pc = "state", !.scans = 1])
    /\ scanq' = Append(scanq, Cmd("scan", "0", <<>>, TRUE, c))
    /\ queue' = queue \o << Cmd("zrevrange", <<>>, <<>>, TRUE, c),
                            Cmd("hgetall", <<>>, <<>>, TRUE, c) >>
    /\ made' = made + 1
    /\ UNCHANGED store
    /\ SnapAtStart

\* the final callback of async.parallel runs when the last task is done
finish(r) == IF r.positionsDone /\ r.scoresDone /\ r.coinsDone
             THEN [r EXCEPT !.pc = "resolved"]
             ELSE r

\* byte order of the characters names are made of
Alphabet == <<"a", "b", "d", "l", "o", "x">>
CharRank(ch) == CHOOSE i \in 1..Len(Alphabet) : Alphabet[i] = ch
RECURSIVE LexLess(_, _)
LexLess(s, t) ==
    IF t = <<>> THEN FALSE
    ELSE IF s = <<>> THEN TRUE
    ELSE IF s[1] # t[1] THEN CharRank(s[1]) < CharRank(t[1])
    ELSE LexLess(Tail(s), Tail(t))

\* ZREVRANGE scores 0 -1 WITHSCORES: members from the highest score to the
\* lowest, equal scores in reverse lexicographic order, each followed by its
\* score
RECURSIVE Zrevrange(_)
Zrevrange(z) ==
    IF DOMAIN z = {} THEN <<>>
    ELSE LET top == CHOOSE m \in DOMAIN z :
                        \A k \in (DOMAIN z) \ {m} :
                            z[k] < z[m] \/ (z[k] = z[m] /\ LexLess(k, m))
         IN  <<top, Fmt(z[top])>> \o Zrevrange(Del(z, top))

\* the loop of the task scores: pairs [member, score]
scoresArray(playerScores) ==
    [i \in 1..(Len(playerScores) \div 2) |->
        <<playerScores[2 * i - 1], playerScores[2 * i]>>]

ZrevrangeReply(c) ==
    /\ queue # <<>>
    /\ Head(queue).cmd = "zrevrange" /\ Head(queue).by = c
    /\ calls' = [calls EXCEPT ![c] =
                    finish([@ EXCEPT !.scoresRes = scoresArray(Zrevrange(scores)),
                                     !.scoresDone = TRUE])]
    /\ queue' = Tail(queue)
    /\ UNCHANGED <<store, scanq, made>>
    /\ UNCHANGED snap

HgetallReplyState(c) ==
    /\ queue # <<>>
    /\ Head(queue).cmd = "hgetall" /\ Head(queue).by = c
    /\ calls[c].op = "state"
    /\ calls' = [calls EXCEPT ![c] =
                    finish([@ EXCEPT !.coinsRes = Hgetall(coins), !.coinsDone = TRUE])]
    /\ queue' = Tail(queue)
    /\ UNCHANGED <<store, scanq, made>>
    /\ UNCHANGED snap

\* the keys of the store in the order SCAN reports them
RECURSIVE SeqOf(_)
SeqOf(S) == IF S = {} THEN <<>>
            ELSE LET k == CHOOSE x \in S : \A y \in S \ {x} : LexLess(y, x) \/ Len(y) > Len(x)
                 IN  <<k>> \o SeqOf(S \ {k})

\* the handler of the scanValues promise in the task positions
playerPositions(playerKeys, playerValues) ==
    [i \in 1..Len(playerKeys) |->
        << Substr7(playerKeys[i]),
           IF i <= Len(playerValues) THEN playerValues[i] ELSE <<"undefined">> >>]

\* resolve([keys, values]) of scanValues; only the first settlement counts
settleScan(r, keys, values) ==
    IF r.scanSettled THEN r
    ELSE finish([r EXCEPT !.scanSettled = TRUE,
                          !.positions = playerPositions(keys, values),
                          !.positionsDone = TRUE])

\* the pages SCAN from cursor '0' can answer with: the matching keys among
\* the first buckets of the iteration
Pages(all) == {SubSeq(SeqOf(all), 1, n) : n \in 0..Cardinality(all)}

\* the callback of SCAN '0' MATCH player:*.  The store answers with a page of
\* the matching keys and a cursor: cursor '0' when the page ends the
\* iteration (it then holds every matching key), another cursor otherwise.
\* resolve() on an empty page does not return, so MGET is issued in every
\* case.
ScanReply(c) ==
    /\ scanq # <<>>
    /\ Head(scanq).cmd = "scan" /\ Head(scanq).by = c
    /\ LET all == {k \in DOMAIN strings : MatchesPattern(k)}
       IN  \E cursor \in {"0", "17"}, matches \in Pages(all) :
             /\ cursor = "0" => Len(matches) = Cardinality(all)
             /\ cursor # "0" => calls[c].scans < MaxScans
             /\ LET keys == calls[c].keys \o matches
                    r == [calls[c] EXCEPT !.keys = keys, !.cursor = cursor]
                IN  /\ calls' = [calls EXCEPT ![c] =
                                    IF Len(matches) = 0
                                    THEN settleScan(r, keys, r.values)
                                    ELSE r]
                    /\ scanq' = Append(Tail(scanq), Cmd("mget", matches, <<>>, TRUE, c))
    /\ UNCHANGED <<store, queue, made>>
    /\ UNCHANGED snap

\* MGET key ...: the value of each key, null for a key that does not exist
Mget(s, ks) == [i \in 1..Len(ks) |-> Get(s, ks[i])]

\* the callback of MGET.  MGET without a key is an error reply: reject() has
\* no effect on the settled promise and newValues is undefined.
MgetReply(c) ==
    /\ scanq # <<>>
    /\ Head(scanq).cmd = "mget" /\ Head(scanq).by = c
    /\ LET matches == Head(scanq).a
           newValues == IF Len(matches) = 0 THEN << <<"undefined">> >>
                        ELSE Mget(strings, matches)
           values == calls[c].values \o newValues
           r == [calls[c] EXCEPT !.values = values]
       IN  IF calls[c].cursor = "0"
           THEN /\ calls' = [calls EXCEPT ![c] = settleScan(r, r.keys, values)]
                /\ scanq' = Tail(scanq)
           ELSE /\ calls' = [calls EXCEPT ![c] = [r EXCEPT !.scans = @ + 1]]
                /\ scanq' = Append(Tail(scanq), Cmd("scan", "0", <<>>, TRUE, c))
    /\ UNCHANGED <<store, queue, made>>
    /\ UNCHANGED snap

\* ------------------------------------------------------------------------
\* The specification
\* ------------------------------------------------------------------------
Next ==
    \/ \E c \in Calls, name \in Names : AddPlayer(c, name)
    \/ \E c \in Calls, direction \in Directions, name \in MoveNames : Move(c, direction, name)
    \/ \E c \in Calls : State(c)
    \/ \E c \in Calls : SismemberReply(c)
    \/ \E c \in Calls : GetReply(c)
    \/ \E c \in Calls : HgetReply(c)
    \/ \E c \in Calls : HgetallReplyMove(c)
    \/ \E c \in Calls : ZrevrangeReply(c)
    \/ \E c \in Calls : HgetallReplyState(c)
    \/ \E c \in Calls : ScanReply(c)
    \/ \E c \in Calls : MgetReply(c)
    \/ SaddCmd
    \/ SetexCmd
    \/ ZaddCmd
    \/ ZincrbyCmd
    \/ CoinsCmd
    \/ Elapse

Spec == Init /\ [][Next]_vars

\* Calls made one at a time: addPlayer and move calls, each made when
\* nothing is in flight
NextAlone ==
    \/ \E c \in Calls, name \in Names : Quiet /\ AddPlayer(c, name)
    \/ \E c \in Calls, direction \in Directions, name \in MoveNames :
          Quiet /\ Move(c, direction, name)
    \/ \E c \in Calls : SismemberReply(c)
    \/ \E c \in Calls : GetReply(c)
    \/ \E c \in Calls : HgetReply(c)
    \/ \E c \in Calls : HgetallReplyMove(c)
    \/ SaddCmd
    \/ SetexCmd
    \/ ZaddCmd
    \/ ZincrbyCmd
    \/ CoinsCmd
    \/ Elapse

SpecAlone == Init /\ [][NextAlone]_vars

\* Calls of addPlayer and move made at any time, also while others are in
\* flight, within the lifetime of the player keys (no time passes)
NextPlay ==
    \/ \E c \in Calls, name \in Names : AddPlayer(c, name)
    \/ \E c \in Calls, direction \in Directions, name \in MoveNames : Move(c, direction, name)
    \/ \E c \in Calls : SismemberReply(c)
    \/ \E c \in Calls : GetReply(c)
    \/ \E c \in Calls : HgetReply(c)
    \/ \E c \in Calls : HgetallReplyMove(c)
    \/ SaddCmd
    \/ SetexCmd
    \/ ZaddCmd
    \/ ZincrbyCmd
    \/ CoinsCmd

SpecPlay == Init /\ [][NextPlay]_vars

\* ------------------------------------------------------------------------
\* Properties
\* ------------------------------------------------------------------------
\* call c is the only call made since nothing was last in flight
Alone(c) == calls[c].pc # "idle" /\ \A d \in Calls \ {c} : calls[d].pc = "idle"

\* the commands of move c have been served and its final reply is next
MoveEnds(c) ==
    /\ calls[c].op = "move"
    /\ queue # <<>>
    /\ Head(queue).cmd = "hgetall" /\ Head(queue).by = c

\* the value a coin stands for, from the text stored for it
ValueOf(text) == CHOOSE v \in {1, 2, 5, 10} : Fmt(v) = text

\* C4: a move made with nothing else in flight that arrives at a cell holding
\* a coin adds exactly the coin's value to the mover's score and removes
\* that coin; a move that arrives at a cell without a coin leaves every
\* score and the coin set as they were.
C4_MoveCollectsCoin ==
    \A c \in Calls :
        (Alone(c) /\ MoveEnds(c)) =>
            LET cell == PairString(calls[c].newPosition[1], calls[c].newPosition[2])
                name == calls[c].name
            IN  IF cell \in DOMAIN snap.coins
                THEN /\ name \in DOMAIN snap.scores
                     /\ scores = [snap.scores EXCEPT
                                     ![name] = @ + ValueOf(snap.coins[cell])]
                     /\ coins = Restrict(snap.coins, (DOMAIN snap.coins) \ {cell})
                ELSE /\ scores = snap.scores
                     /\ coins = snap.coins

\* a move that ran alone has collected a coin of value 10
C4_Witness ==
    \E c \in Calls :
        /\ Alone(c) /\ MoveEnds(c)
        /\ LET cell == PairString(calls[c].newPosition[1], calls[c].newPosition[2])
           IN  /\ cell \in DOMAIN snap.coins
               /\ snap.coins[cell] = Fmt(10)
               /\ cell \notin DOMAIN coins
               /\ scores[calls[c].name] = snap.scores[calls[c].name] + 10

\* v kept within 0..high
Bounded(v, high) == IF v < 0 THEN 0 ELSE IF v > high THEN high ELSE v
StepX(direction) == IF direction = "R" THEN 1 ELSE IF direction = "L" THEN -1 ELSE 0
StepY(direction) == IF direction = "D" THEN 1 ELSE IF direction = "U" THEN -1 ELSE 0

\* the coordinates a position text "x,y" stands for
CoordX(text) == CHOOSE x \in 0..(WIDTH - 1) :
                    \E k \in 1..Len(text) : text[k] = "," /\ SubSeq(text, 1, k - 1) = Fmt(x)
CoordY(text) == CHOOSE y \in 0..(HEIGHT - 1) :
                    \E k \in 1..Len(text) :
                        text[k] = "," /\ SubSeq(text, k + 1, Len(text)) = Fmt(y)
\* the position text after one step in a direction from the position text
Stepped(text, direction) ==
    PairString(Bounded(CoordX(text) + StepX(direction), WIDTH - 1),
               Bounded(CoordY(text) + StepY(direction), HEIGHT - 1))

\* C8: after a move of a registered player at (x,y) that ran alone, the
\* stored position is (x+dx, y+dy) with each coordinate kept within the
\* board on its own.
C8_MoveClamps ==
    \A c \in Calls :
        LET key == PlayerKey(calls[c].name)
        IN  (Alone(c) /\ MoveEnds(c) /\ key \in DOMAIN snap.strings
                      /\ key \in DOMAIN strings) =>
                strings[key].val = Stepped(snap.strings[key].val, calls[c].dir)

\* a player in the corner (63,63) has moved right, alone, and is still there
C8_Witness ==
    \E c \in Calls :
        LET key == PlayerKey(calls[c].name)
        IN  /\ Alone(c) /\ MoveEnds(c)
            /\ calls[c].dir = "R"
            /\ key \in DOMAIN snap.strings /\ key \in DOMAIN strings
            /\ snap.strings[key].val = PairString(WIDTH - 1, HEIGHT - 1)
            /\ strings[key].val = PairString(WIDTH - 1, HEIGHT - 1)

\* a call has ended: its promise is settled or its callback has thrown, and
\* none of its commands is on its way
Ended(c) == calls[c].pc \notin Waiting \cup {"idle"} /\ ~HasCommand(c)
MoveCompleted(c) ==
    calls[c].op = "move" /\ calls[c].pc \in {"resolved", "thrown_length"} /\ ~HasCommand(c)

ValidName(name) == Len(name) >= 1 /\ Len(name) <= MAX_PLAYER_NAME_LENGTH

\* C1: of the addPlayer calls made with one valid name that was not
\* registered, once all of them have returned, exactly one has returned true.
C1_ExactlyOneWins ==
    \A name \in Names :
        LET callers == {c \in Calls : calls[c].op = "addPlayer" /\ calls[c].name = name}
        IN  (/\ ValidName(name)
             /\ name \notin snap.usednames
             /\ callers # {}
             /\ \A c \in callers : calls[c].pc = "resolved")
            => Cardinality({c \in callers : calls[c].result}) = 1

\* C2: when two moves of different players have both arrived at the cell of
\* one coin, exactly one of the two players has gained the coin's value, the
\* other has gained nothing, and the coin is gone.
C2_OneClaimPerCoin ==
    \A c, d \in Calls :
        LET cell == PairString(calls[c].newPosition[1], calls[c].newPosition[2])
            nc == calls[c].name
            nd == calls[d].name
        IN  (/\ MoveCompleted(c) /\ MoveCompleted(d)
             /\ nc # nd
             /\ \A e \in Calls \ {c, d} : calls[e].pc = "idle"
             /\ calls[d].newPosition = calls[c].newPosition
             /\ cell \in DOMAIN snap.coins
             /\ nc \in DOMAIN snap.scores /\ nd \in DOMAIN snap.scores)
            => /\ cell \notin DOMAIN coins
               /\ LET v == ValueOf(snap.coins[cell])
                      gc == scores[nc] - snap.scores[nc]
                      gd == scores[nd] - snap.scores[nd]
                  IN  (gc = v /\ gd = 0) \/ (gc = 0 /\ gd = v)

\* the store is as it was when the call was made (time may have passed)
StoreAsBefore ==
    /\ strings = Live(snap.strings)
    /\ scores = snap.scores
    /\ usednames = snap.usednames
    /\ coins = snap.coins

\* C3: an addPlayer call that returns false (empty name, name longer than
\* 32, name already registered) changes nothing in the store.
C3_RejectedAddPlayerChangesNothing ==
    \A c \in Calls :
        (/\ Alone(c)
         /\ calls[c].op = "addPlayer"
         /\ calls[c].pc = "resolved"
         /\ ~calls[c].result)
        => StoreAsBefore

\* C5: when the move that claimed the last remaining coin has completed, the
\* coin set holds NUM_COINS coins again.
C5_RegeneratedAfterLastCoin ==
    \A c \in Calls :
        LET cell == PairString(calls[c].newPosition[1], calls[c].newPosition[2])
        IN  (/\ Alone(c)
             /\ MoveCompleted(c)
             /\ truthy(calls[c].value)
             /\ DOMAIN snap.coins = {cell})
            => Cardinality(DOMAIN coins) = NUM_COINS

\* the names listed in the positions or in the scores of a state() result
Listed(pairs) == {pairs[i][1] : i \in 1..Len(pairs)}

\* the name was registered and its player key has expired
Expired(name) ==
    /\ name \in snap.usednames
    /\ name \in DOMAIN snap.scores
    /\ PlayerKey(name) \notin DOMAIN snap.strings

\* C6: a player whose key has expired is listed neither in the positions nor
\* in the scores of a state() call made afterwards, and addPlayer with its
\* name returns true.
C6_ExpiredPlayerIsGone ==
    \A c \in Calls :
        /\ (Alone(c) /\ calls[c].op = "state" /\ calls[c].pc = "resolved")
           => \A name \in snap.usednames :
                  Expired(name) =>
                      /\ name \notin Listed(calls[c].positions)
                      /\ name \notin Listed(calls[c].scoresRes)
        /\ (Alone(c) /\ calls[c].op = "addPlayer" /\ calls[c].pc = "resolved"
                     /\ ValidName(calls[c].name) /\ Expired(calls[c].name))
           => calls[c].result

\* C7: a move in a recognized direction for a name without a player key is
\* rejected and changes nothing.
C7_UnknownPlayerRejected ==
    \A c \in Calls :
        (/\ Alone(c)
         /\ calls[c].op = "move"
         /\ calls[c].dir \in Recognized
         /\ PlayerKey(calls[c].name) \notin DOMAIN snap.strings
         /\ Ended(c))
        => calls[c].pc = "rejected" /\ StoreAsBefore

\* C9: after two moves of one player made at the same time, the stored
\* position is the position before them stepped by the one move and then by
\* the other, in one of the two orders.
C9_SamePlayerMovesSerialized ==
    \A c, d \in Calls :
        LET key == PlayerKey(calls[c].name)
        IN  (/\ c # d
             /\ MoveCompleted(c) /\ MoveCompleted(d)
             /\ calls[c].name = calls[d].name
             /\ \A e \in Calls \ {c, d} : calls[e].pc = "idle"
             /\ key \in DOMAIN snap.strings /\ key \in DOMAIN strings)
            => LET before == snap.strings[key].val
               IN  strings[key].val \in
                       { Stepped(Stepped(before, calls[c].dir), calls[d].dir),
                         Stepped(Stepped(before, calls[d].dir), calls[c].dir) }

\* ------------------------------------------------------------------------
\* placeCoins() at module load, on a store that may hold coins already
\* ------------------------------------------------------------------------
\* the coin hashes the store may hold when the module is loaded: none, or
\* coins of an earlier run of the server
Priors ==
    {Empty} \cup {Restrict(placeCoins(Empty, NoSwap), {PairString(r, col)}) :
                     r \in {0, 1, 2}, col \in {0, 1, 2}}
\* the random draws followed at load
LoadDraws ==
    Draws \cup {[i \in {k} |-> j] : k \in {99, 100, 4095}, j \in {0, 1, 98}}

\* the module has issued the commands of placeCoins(); none is served yet
InitPlace ==
    \E prior \in Priors, J \in LoadDraws :
        /\ coins = prior
        /\ strings = Empty
        /\ scores = Empty
        /\ usednames = {}
        /\ queue = << Cmd("placeCoins", J, <<>>, FALSE, 1) >>
        /\ scanq = <<>>
        /\ calls = [c \in Calls |-> IdleCall]
        /\ made = 0
        /\ snap = Snapshot

NextPlace == CoinsCmd

SpecPlace == InitPlace /\ [][NextPlace]_vars

CountOf(v) == Cardinality({f \in DOMAIN coins : coins[f] = Fmt(v)})

\* C10: after placeCoins the coin set holds exactly NUM_COINS coins, 50 of
\* value 1, 25 of value 2, 20 of value 5 and 5 of value 10, whatever it held
\* before.
C10_PlaceCoinsExact ==
    queue = <<>> =>
        /\ Cardinality(DOMAIN coins) = NUM_COINS
        /\ CountOf(1) = 50 /\ CountOf(2) = 25 /\ CountOf(5) = 20 /\ CountOf(10) = 5

\* ------------------------------------------------------------------------
\* Registered players and the leaderboard
\* ------------------------------------------------------------------------
\* the names with a live player entry
RegisteredNames == {Substr7(k) : k \in {x \in DOMAIN strings : MatchesPattern(x)}}

\* C11: whenever nothing is in flight, each name calls are made with has a
\* live player entry exactly when it has a leaderboard entry.
C11_RegisteredEqualsLeaderboard ==
    Quiet => \A name \in Names : name \in RegisteredNames <=> name \in DOMAIN scores

\* C12: while a player stays registered its score is a non-negative integer
\* and no step lowers it.
C12_ScoreNeverDecreases ==
    [][\A name \in DOMAIN scores :
          (/\ PlayerKey(name) \in DOMAIN strings
           /\ PlayerKey(name) \in DOMAIN strings'
           /\ name \in DOMAIN scores')
          => scores'[name] >= scores[name] /\ scores'[name] >= 0]_vars

\* ------------------------------------------------------------------------
\* Names and positions
\* ------------------------------------------------------------------------
\* C13: an addPlayer call with a name of length 0 or longer than
\* MAX_PLAYER_NAME_LENGTH resolves with false, whatever the store holds and
\* whatever else is in flight.
C13_InvalidNameReturnsFalse ==
    \A c \in Calls :
        (/\ calls[c].op = "addPlayer"
         /\ ~ValidName(calls[c].name)
         /\ calls[c].pc # "sismember")
        => calls[c].pc = "resolved" /\ ~calls[c].result

\* addPlayer with the 33-character name, never used before, has returned
\* false
C13_Witness ==
    \E c \in Calls :
        /\ calls[c].op = "addPlayer"
        /\ calls[c].name = LongName
        /\ LongName \notin snap.usednames
        /\ calls[c].pc = "resolved" /\ ~calls[c].result

\* the text is "x,y" with x and y decimal numbers inside the board
InsideBoard(text) ==
    LET xy == Split(text)
    IN  /\ Len(xy) = 2
        /\ Number(xy[1]) \in 0..(WIDTH - 1)
        /\ Number(xy[2]) \in 0..(HEIGHT - 1)
        /\ text = PairString(Number(xy[1]), Number(xy[2]))

\* C14: in every state the position stored for every player lies inside the
\* board.
C14_PositionsInsideBoard ==
    \A key \in DOMAIN strings : MatchesPattern(key) => InsideBoard(strings[key].val)

\* two moves to the left of one player on the left edge, in flight at the
\* same time, have both been stored and the player is still on the edge
C14_Witness ==
    \E c, d \in Calls :
        /\ c # d
        /\ MoveCompleted(c) /\ MoveCompleted(d)
        /\ calls[c].name = calls[d].name
        /\ calls[c].dir = "L" /\ calls[d].dir = "L"
        /\ PlayerKey(calls[c].name) \in DOMAIN strings
        /\ strings[PlayerKey(calls[c].name)].val = PairString(0, 1)

\* ------------------------------------------------------------------------
\* Store failures during a move
\* ------------------------------------------------------------------------
\* A command sent without a callback is answered with an error: it has no
\* effect on the store, and the client emits the error to the handler
\* installed at load, which logs it.
FailCmd ==
    /\ queue # <<>> /\ ~Head(queue).cb
    /\ queue' = Tail(queue)
    /\ calls' = [calls EXCEPT ![Head(queue).by].failed = TRUE]
    /\ UNCHANGED <<store, scanq, made>>
    /\ UNCHANGED snap

\* GET is answered with an error: done(err) runs the final callback, which
\* rejects the promise and issues HGETALL; back in the callback of GET,
\* playerPosition is undefined and split throws.
GetFails(c) ==
    /\ queue # <<>>
    /\ Head(queue).cmd = "get" /\ Head(queue).by = c
    /\ calls' = [calls EXCEPT ![c].pc = "rejected", ![c].failed = TRUE]
    /\ queue' = Append(Tail(queue), Cmd("hgetall", <<>>, <<>>, TRUE, c))
    /\ UNCHANGED <<store, scanq, made>>
    /\ UNCHANGED snap

\* HGET is answered with an error: done(err) runs the final callback, which
\* rejects the promise and issues HGETALL; back in the callback of HGET,
\* value is undefined, so no coin is claimed, and SETEX is issued all the
\* same.
HgetFails(c) ==
    /\ queue # <<>>
    /\ Head(queue).cmd = "hget" /\ Head(queue).by = c
    /\ calls' = [calls EXCEPT ![c].pc = "rejected", ![c].failed = TRUE]
    /\ queue' = Tail(queue) \o
           << Cmd("hgetall", <<>>, <<>>, TRUE, c),
              Cmd("setex", PlayerKey(calls[c].name), Head(queue).a, FALSE, c) >>
    /\ UNCHANGED <<store, scanq, made>>
    /\ UNCHANGED snap

\* HGETALL of a move is answered with an error: the promise is rejected;
\* coinList is undefined and reading its length throws.
HgetallFails(c) ==
    /\ queue # <<>>
    /\ Head(queue).cmd = "hgetall" /\ Head(queue).by = c
    /\ calls[c].op = "move"
    /\ calls' = [calls EXCEPT ![c].pc = "rejected", ![c].failed = TRUE]
    /\ queue' = Tail(queue)
    /\ UNCHANGED <<store, scanq, made>>
    /\ UNCHANGED snap

\* moves made one at a time on a store that may answer any command with an
\* error
NextFail ==
    \/ \E c \in Calls, direction \in Directions, name \in MoveNames :
          Quiet /\ Move(c, direction, name)
    \/ \E c \in Calls : GetReply(c)
    \/ \E c \in Calls : HgetReply(c)
    \/ \E c \in Calls : HgetallReplyMove(c)
    \/ \E c \in Calls : GetFails(c)
    \/ \E c \in Calls : HgetFails(c)
    \/ \E c \in Calls : HgetallFails(c)
    \/ SetexCmd
    \/ ZincrbyCmd
    \/ CoinsCmd
    \/ FailCmd
    \/ Elapse

SpecFail == Init /\ [][NextFail]_vars

\* the position stored for the player of move c is as it was before the
\* move, or is the cell the move arrived at
PositionAsBefore(c) ==
    LET key == PlayerKey(calls[c].name)
    IN  (key \in DOMAIN strings /\ key \in DOMAIN snap.strings)
            => strings[key].val = snap.strings[key].val
PositionWritten(c) ==
    LET key == PlayerKey(calls[c].name)
    IN  /\ key \in DOMAIN strings
        /\ strings[key].val = PairString(calls[c].newPosition[1], calls[c].newPosition[2])

\* C15: a move during which the store answered a command with an error has
\* its promise rejected, and has either changed nothing or taken its whole
\* effect: the position written and, if the cell held a coin, the coin
\* removed and its value credited.
C15_FailedMoveIsAtomic ==
    \A c \in Calls :
        (/\ Alone(c)
         /\ calls[c].op = "move"
         /\ calls[c].failed
         /\ Ended(c))
        => /\ calls[c].pc = "rejected"
           /\ LET cell == PairString(calls[c].newPosition[1], calls[c].newPosition[2])
                  name == calls[c].name
              IN  \/ /\ scores = snap.scores
                     /\ coins = snap.coins
                     /\ PositionAsBefore(c)
                  \/ /\ PositionWritten(c)
                     /\ coins = Restrict(snap.coins, (DOMAIN snap.coins) \ {cell})
                     /\ scores = IF cell \in DOMAIN snap.coins
                                 THEN Zincrby(snap.scores, snap.coins[cell], name)
                                 ELSE snap.scores

\* ------------------------------------------------------------------------
\* The player positions read by state()
\* ------------------------------------------------------------------------
\* C16: the positions returned by state() are those of one instant of the
\* player map; in particular no returned name comes without a position and
\* no name is returned twice.
C16_PositionsCoherent ==
    \A c \in Calls :
        (calls[c].op = "state" /\ calls[c].pc = "resolved")
        => LET positions == calls[c].positions
           IN  /\ \A i \in 1..Len(positions) :
                     positions[i][2] \notin {Null, <<"undefined">>}
               /\ \A i, j \in 1..Len(positions) :
                     i # j => positions[i][1] # positions[j][1]

\* C17: when the store has not changed since the call was made, the scan
\* made for state() has returned every player key exactly once, each with
\* its value, however the store has paged the scan.
C17_ScanReturnsEveryKeyOnce ==
    \A c \in Calls :
        (/\ Alone(c)
         /\ calls[c].op = "state"
         /\ calls[c].pc = "resolved"
         /\ strings = snap.strings)
        => LET all == {k \in DOMAIN strings : MatchesPattern(k)}
               positions == calls[c].positions
           IN  /\ Len(positions) = Cardinality(all)
               /\ \A k \in all :
                     \E i \in 1..Len(positions) :
                         positions[i] = <<Substr7(k), strings[k].val>>

C19_MoveSettles ==
    \A c \in Calls :
        (calls[c].op = "move" /\ Ended(c))
        => calls[c].pc \in {"resolved", "rejected"}

\* C20: in every state the coin set holds at most NUM_COINS coins, each with
\* a value among 1, 2, 5 and 10.
C20_AtMostNumCoins ==
    /\ Cardinality(DOMAIN coins) <= NUM_COINS
    /\ \A f \in DOMAIN coins : \E v \in {1, 2, 5, 10} : coins[f] = Fmt(v)

====
